---- MODULE Spec2Model ----
(***************************************************************************)
(* create_daylight_calendar.py as a state machine: one process run from    *)
(* argument parsing to exit, followed by the next run.  Dates are Python   *)
(* datetime.date values (year, month, day; Gregorian; at most 9999-12-31), *)
(* instants are a date plus the second of the day.                         *)
(***************************************************************************)
EXTENDS Integers, Sequences, FiniteSets, TLC

VARIABLES
    pc,            \* position of the process
    args,          \* argparse namespace (line 300)
    lat, lng,      \* resolved coordinates, <<>> while unset
    filename,      \* output file name
    timezone_str,  \* line 105/109
    start_date, end_date, current_date,
    dtstamp,       \* line 129
    events_data,   \* line 128
    ics_events,    \* line 183
    stdout,        \* the "Skipping <date>" lines printed at line 176
    sunLog,        \* what sun() did on each call of line 136
    fileOpens,     \* number of open(filename, 'w') calls
    fileLines,     \* content written to the output file
    exit,          \* exit status and the way the process ended
    failures,      \* collaborators that failed in this run
    remembered     \* one UID emitted by an earlier run, with its inputs

vars == <<pc, args, lat, lng, filename, timezone_str, start_date, end_date,
          current_date, dtstamp, events_data, ics_events, stdout, sunLog,
          fileOpens, fileLines, exit, failures, remembered>>

-----------------------------------------------------------------------------
(* Bounds of the model *)

\* longest date range tried, in days
MaxSpan == 3

\* number of values the truncated digest takes (small, so that digests collide)
HashSpace == 3

-----------------------------------------------------------------------------
(* datetime.date and datetime.datetime *)

IsLeap(y) == (y % 4 = 0) /\ ((y % 100 # 0) \/ (y % 400 = 0))

DaysInMonth(y, m) ==
    IF m = 2 THEN (IF IsLeap(y) THEN 29 ELSE 28)
    ELSE IF m \in {4, 6, 9, 11} THEN 30 ELSE 31

Date(y, m, d) == [y |-> y, m |-> m, d |-> d]

\* datetime.date.max
DateMax == Date(9999, 12, 31)

DateLT(a, b) ==
    \/ a.y < b.y
    \/ a.y = b.y /\ a.m < b.m
    \/ a.y = b.y /\ a.m = b.m /\ a.d < b.d

DateLE(a, b) == a = b \/ DateLT(a, b)

\* date + timedelta(days=1), for a date before date.max
AddDay(dt) ==
    IF dt.d < DaysInMonth(dt.y, dt.m) THEN Date(dt.y, dt.m, dt.d + 1)
    ELSE IF dt.m < 12 THEN Date(dt.y, dt.m + 1, 1)
    ELSE Date(dt.y + 1, 1, 1)

\* date - timedelta(days=1)
SubDay(dt) ==
    IF dt.d > 1 THEN Date(dt.y, dt.m, dt.d - 1)
    ELSE IF dt.m > 1 THEN Date(dt.y, dt.m - 1, DaysInMonth(dt.y, dt.m - 1))
    ELSE Date(dt.y - 1, 12, 31)

DateTime(dt, sec) == [date |-> dt, sec |-> sec]

\* the minutes of datetime.timedelta(minutes=30), lines 143 and 154
EventMinutes == 30

\* the subtraction stopping at midnight instead of going to the day before
MinusMinutesSameDay(dt, n) ==
    IF dt.sec >= n * 60 THEN DateTime(dt.date, dt.sec - n * 60)
    ELSE DateTime(dt.date, 0)

\* dt - datetime.timedelta(minutes=n), n below one day; tzinfo is kept as is
MinusMinutes(dt, n) ==
    IF dt.sec >= n * 60 THEN DateTime(dt.date, dt.sec - n * 60)
    ELSE DateTime(SubDay(dt.date), dt.sec + 24 * 3600 - n * 60)

\* date.strftime('%Y%m%d') as the number YYYYMMDD
StrftimeYmd(dt) == dt.y * 10000 + dt.m * 100 + dt.d

\* date.isoformat(), strftime("%Y-%m-%d"): the three fields of YYYY-MM-DD
Isoformat(dt) == <<dt.y, dt.m, dt.d>>

\* strftime("%H:%M:%S"): the three fields
StrftimeHms(dt) == <<dt.sec \div 3600, (dt.sec \div 60) % 60, dt.sec % 60>>

\* format_datetime_ics: YYYYMMDD "T" HHMMSS
format_datetime_ics(dt) ==
    [ymd |-> StrftimeYmd(dt.date),
     hms |-> (dt.sec \div 3600) * 10000 + ((dt.sec \div 60) % 60) * 100 + (dt.sec % 60)]

\* A date string is modelled by its three numeric fields and its separator.
DateStr(y, m, d, sep) == [y |-> y, m |-> m, d |-> d, sep |-> sep]

\* datetime.datetime.strptime(s, "%Y-%m-%d") raises ValueError on these
StrptimeFails(s) ==
    \/ s.sep # "-"
    \/ s.y < 1 \/ s.y > 9999
    \/ s.m < 1 \/ s.m > 12
    \/ s.d < 1 \/ s.d > DaysInMonth(s.y, s.m)

\* datetime.datetime.strptime(s, "%Y-%m-%d").date()
Strptime(s) == Date(s.y, s.m, s.d)

-----------------------------------------------------------------------------
(* generate_uid *)

\* position of the event type in the string that is hashed
TypeCode(event_type) ==
    CASE event_type = "daylight" -> 0
      [] event_type = "sunrise"  -> 1
      [] event_type = "sunset"   -> 2

\* f"{date.isoformat()}-{event_type}-{lat}-{lng}", line 85
UidString(date, event_type, la, ln) == <<Isoformat(date), event_type, la, ln>>

\* hashlib.md5(uid_string.encode()).hexdigest()[:8]: a fixed function of the
\* string alone, into a space small enough for two strings to share a digest
Md5Prefix(s) ==
    (s[1][1] + s[1][2] + (s[1][3] \div 2) + TypeCode(s[2]) + s[3] + s[4]) % HashSpace

\* generate_uid with the run's DTSTAMP mixed into the hashed string
generate_uid_clock(date, event_type, la, ln) ==
    [ymd  |-> StrftimeYmd(date),
     type |-> event_type,
     hash |-> (Md5Prefix(UidString(date, event_type, la, ln)) + dtstamp.hms) % HashSpace,
     ns   |-> "daylight-calendar"]

\* generate_uid without the date in front of the digest
generate_uid_nodate(date, event_type, la, ln) ==
    [ymd  |-> 0,
     type |-> event_type,
     hash |-> Md5Prefix(UidString(date, event_type, la, ln)),
     ns   |-> "daylight-calendar"]

\* f"{date.strftime('%Y%m%d')}-{event_type}-{hash_suffix}@daylight-calendar"
generate_uid(date, event_type, la, ln) ==
    [ymd  |-> StrftimeYmd(date),
     type |-> event_type,
     hash |-> Md5Prefix(UidString(date, event_type, la, ln)),
     ns   |-> "daylight-calendar"]

-----------------------------------------------------------------------------
(* generate_ics_content *)

\* one content line, NAME;TZID=param:value (param "" when there is none)
Line(name, param, value) == [name |-> name, param |-> param, value |-> value]

IcsPreamble ==
    << Line("BEGIN", "", "VCALENDAR"),
       Line("VERSION", "", "2.0"),
       Line("PRODID", "", "-//Daylight Calendar Generator//EN"),
       Line("CALSCALE", "", "GREGORIAN"),
       Line("METHOD", "", "PUBLISH") >>

\* the block of an event with its END:VEVENT line left out
VEventUnclosed(evt) ==
    << Line("BEGIN", "", "VEVENT"),
       Line("UID", "", evt.uid),
       Line("DTSTAMP", "", evt.dtstamp),
       Line("DTSTART", evt.timezone, evt.dtstart),
       Line("DTEND", evt.timezone, evt.dtend),
       Line("SUMMARY", "", evt.summary),
       Line("DESCRIPTION", "", evt.description),
       Line("CLASS", "", "PRIVATE"),
       Line("STATUS", "", "CONFIRMED"),
       Line("TRANSP", "", "TRANSPARENT") >>

\* lines 63-73: the lines appended for one event
VEvent(evt) ==
    << Line("BEGIN", "", "VEVENT"),
       Line("UID", "", evt.uid),
       Line("DTSTAMP", "", evt.dtstamp),
       Line("DTSTART", evt.timezone, evt.dtstart),
       Line("DTEND", evt.timezone, evt.dtend),
       Line("SUMMARY", "", evt.summary),
       Line("DESCRIPTION", "", evt.description),
       Line("CLASS", "", "PRIVATE"),
       Line("STATUS", "", "CONFIRMED"),
       Line("TRANSP", "", "TRANSPARENT"),
       Line("END", "", "VEVENT") >>

RECURSIVE VEvents(_)
\* the for loop of lines 62-73
VEvents(events) ==
    IF events = << >> THEN << >>
    ELSE VEvent(Head(events)) \o VEvents(Tail(events))

\* the document as its CRLF-terminated lines ("\r\n".join(ics_lines) + "\r\n")
generate_ics_content(events) ==
    IcsPreamble \o VEvents(events) \o << Line("END", "", "VCALENDAR") >>

-----------------------------------------------------------------------------
(* the events of one day, lines 138-172 *)

Event(summary, description, start, end, type, date) ==
    [summary |-> summary, description |-> description,
     start |-> start, end |-> end, type |-> type, date |-> date]

\* lines 143-151
SunriseEvent(date, s) ==
    Event("Sunrise", "Sunrise", MinusMinutes(s.sunrise, EventMinutes), s.sunrise,
          "sunrise", date)

\* lines 154-162
SunsetEvent(date, s) ==
    Event("Sunset", "Sunset", MinusMinutes(s.sunset, EventMinutes), s.sunset,
          "sunset", date)

\* lines 165-172
DaylightEvent(date, s) ==
    Event("Daylight", "Daylight hours from sunrise to sunset", s.sunrise, s.sunset,
          "daylight", date)

\* the two events of split mode appended in the other order
DayEventsSunsetFirst(date, s, separate_events) ==
    IF separate_events
    THEN << SunsetEvent(date, s), SunriseEvent(date, s) >>
    ELSE << DaylightEvent(date, s) >>

\* what one successful pass of the try block appends to events_data
DayEvents(date, s, separate_events) ==
    IF separate_events
    THEN << SunriseEvent(date, s), SunsetEvent(date, s) >>
    ELSE << DaylightEvent(date, s) >>

\* lines 185-193
IcsEvent(evt_data) ==
    [uid         |-> generate_uid(evt_data.date, evt_data.type, lat, lng),
     dtstamp     |-> dtstamp,
     dtstart     |-> format_datetime_ics(evt_data.start),
     dtend       |-> format_datetime_ics(evt_data.end),
     summary     |-> evt_data.summary,
     description |-> evt_data.description,
     timezone    |-> timezone_str]

CsvHeaders ==
    << "Subject", "Start Date", "Start Time", "End Date", "End Time",
       "All Day Event", "Description", "Private" >>

\* lines 211-220
CsvRow(evt_data) ==
    << evt_data.summary,
       Isoformat(evt_data.start.date), StrftimeHms(evt_data.start),
       Isoformat(evt_data.end.date), StrftimeHms(evt_data.end),
       "False", evt_data.description, "True" >>

-----------------------------------------------------------------------------
(* Inputs: command lines, collaborator results, clock readings *)

\* the string of the day after / before the day a date string names
NextStr(s) ==
    IF s.d < DaysInMonth(s.y, s.m) THEN DateStr(s.y, s.m, s.d + 1, s.sep)
    ELSE IF s.m < 12 THEN DateStr(s.y, s.m + 1, 1, s.sep)
    ELSE DateStr(s.y + 1, 1, 1, s.sep)

PrevStr(s) ==
    IF s.d > 1 THEN DateStr(s.y, s.m, s.d - 1, s.sep)
    ELSE IF s.m > 1 THEN DateStr(s.y, s.m - 1, DaysInMonth(s.y, s.m - 1), s.sep)
    ELSE DateStr(s.y - 1, 12, 31, s.sep)

RECURSIVE StrPlus(_, _)
StrPlus(s, k) == IF k = 0 THEN s ELSE StrPlus(NextStr(s), k - 1)

\* values of --start: the end of February, the last days a date can hold,
\* a day that does not exist, a string in another format
StartStrings ==
    { DateStr(2026, 2, 27, "-"), DateStr(9999, 12, 30, "-"),
      DateStr(2026, 2, 30, "-"), DateStr(2026, 2, 27, "/") }

\* values of --end tried with a --start: the day before it (an empty range),
\* ranges of 1..MaxSpan days, and a month that does not exist
EndStrings(s) ==
    IF StrptimeFails(s) THEN { DateStr(2026, 2, 28, "-") }
    ELSE { PrevStr(s), DateStr(2026, 13, 1, "-") }
         \cup { StrPlus(s, k) : k \in 0..(MaxSpan - 1) }

\* values of --location / --lat / --lon that pass the required, mutually
\* exclusive group of lines 246-258; <<>> is None
LocationArgs ==
    { [location |-> <<l>>, lat |-> << >>, lon |-> << >>] : l \in {"Brooklyn", ""} }
    \cup { [location |-> << >>, lat |-> <<la>>, lon |-> lo] :
             la \in {40, 69}, lo \in { << >>, <<18>> } }

\* location.latitude, location.longitude of a geocoding hit
GeocodeHit == [latitude |-> 40, longitude |-> 18]

\* ways geocode_location raises ValueError (lines 32, 42, 48)
GeocodeErrors == {"geopy unavailable", "not found", "geocoder raised"}

\* results of tf.timezone_at: an IANA name or None ("")
TimezoneAtResults == {"Europe/Oslo", ""}

\* calls of lines 104-112 that can raise
TimezoneCalls == {"TimezoneFinder.timezone_at", "pytz.timezone"}

\* (sunrise, sunset) of a day in seconds after local midnight: an ordinary day,
\* and a day whose sunset is before its sunrise, both within half an hour of
\* midnight
SunTimes == { <<21600, 64830>>, <<600, 300>> }

\* the dictionary sun() returns for a date
SunResult(date, t) ==
    [sunrise |-> DateTime(date, t[1]), sunset |-> DateTime(date, t[2])]

\* readings of datetime.datetime.now(pytz.UTC)
Clocks == { DateTime(Date(2026, 11, 4), 43200), DateTime(Date(2026, 11, 5), 1) }

-----------------------------------------------------------------------------
(* State *)

NoDate == Date(0, 0, 0)

NoArgs ==
    [location |-> << >>, lat |-> << >>, lon |-> << >>,
     start |-> DateStr(1, 1, 1, "-"), end |-> DateStr(1, 1, 1, "-"),
     output |-> "", format |-> "ics", separate_events |-> FALSE]

Running == [code |-> 0, how |-> "running", raised |-> ""]

\* parser.error: usage message on stderr, exit status 2
UsageError == [code |-> 2, how |-> "usage", raised |-> ""]

\* an exception nobody catches: traceback on stderr, exit status 1
Traceback(what) == [code |-> 1, how |-> "traceback", raised |-> what]

ExitOk == [code |-> 0, how |-> "ok", raised |-> ""]

Fresh ==
    /\ pc = "start"
    /\ args = NoArgs
    /\ lat = 0 /\ lng = 0
    /\ filename = ""
    /\ timezone_str = ""
    /\ start_date = NoDate /\ end_date = NoDate /\ current_date = NoDate
    /\ dtstamp = format_datetime_ics(DateTime(NoDate, 0))
    /\ events_data = << >>
    /\ ics_events = << >>
    /\ stdout = << >>
    /\ sunLog = << >>
    /\ fileOpens = 0
    /\ fileLines = << >>
    /\ exit = Running
    /\ failures = {}

Init == Fresh /\ remembered = << >>

-----------------------------------------------------------------------------
(* __main__, lines 300-330 *)

\* line 300: parser.parse_args() on a command line the parser accepts
ParseArgs ==
    /\ pc = "start"
    /\ \E loc \in LocationArgs, s \in StartStrings, f \in {"ics", "csv"},
          sep \in BOOLEAN :
         \E e \in EndStrings(s) :
            args' = [location |-> loc.location, lat |-> loc.lat, lon |-> loc.lon,
                     start |-> s, end |-> e, output |-> "",
                     format |-> f, separate_events |-> sep]
    /\ pc' = "validate_dates"
    /\ UNCHANGED <<lat, lng, filename, timezone_str, start_date, end_date,
                   current_date, dtstamp, events_data, ics_events, stdout, sunLog,
                   fileOpens, fileLines, exit, failures, remembered>>

\* the date check of lines 303-306 that looks at --start only
DatesInvalidStartOnly == StrptimeFails(args.start)

\* whether the try block of lines 303-306 raises ValueError
DatesInvalid == StrptimeFails(args.start) \/ StrptimeFails(args.end)

\* lines 303-307
ValidateDates ==
    /\ pc = "validate_dates"
    /\ IF DatesInvalid
       THEN pc' = "exited" /\ exit' = UsageError
       ELSE pc' = "resolve_location" /\ UNCHANGED exit
    /\ UNCHANGED <<args, lat, lng, filename, timezone_str, start_date, end_date,
                   current_date, dtstamp, events_data, ics_events, stdout, sunLog,
                   fileOpens, fileLines, failures, remembered>>

\* if args.location: (None and "" are both false)
LocationGiven == args.location # << >> /\ args.location[1] # ""

\* lines 325-327
OutputName ==
    IF args.output = ""
    THEN (IF args.format = "ics" THEN "daylight_calendar.ics" ELSE "daylight_calendar.csv")
    ELSE args.output

\* lines 310-313 with geocode_location returning at line 46, then 325-329
GeocodeFound ==
    /\ pc = "resolve_location"
    /\ LocationGiven
    /\ lat' = GeocodeHit.latitude
    /\ lng' = GeocodeHit.longitude
    /\ filename' = OutputName
    /\ pc' = "setup_timezone"
    /\ UNCHANGED <<args, timezone_str, start_date, end_date, current_date, dtstamp,
                   events_data, ics_events, stdout, sunLog, fileOpens, fileLines,
                   exit, failures, remembered>>

\* lines 310-316 with geocode_location raising ValueError (lines 33, 43, 49)
GeocodeFails ==
    /\ pc = "resolve_location"
    /\ LocationGiven
    /\ \E why \in GeocodeErrors : failures' = failures \cup {"geocode"}
    /\ pc' = "exited"
    /\ exit' = UsageError
    /\ UNCHANGED <<args, lat, lng, filename, timezone_str, start_date, end_date,
                   current_date, dtstamp, events_data, ics_events, stdout, sunLog,
                   fileOpens, fileLines, remembered>>

\* lines 317-322, then 325-329
UseCoordinates ==
    /\ pc = "resolve_location"
    /\ ~LocationGiven
    /\ IF args.lat = << >> \/ args.lon = << >>
       THEN /\ pc' = "exited"
            /\ exit' = UsageError
            /\ UNCHANGED <<lat, lng, filename>>
       ELSE /\ lat' = args.lat[1]
            /\ lng' = args.lon[1]
            /\ filename' = OutputName
            /\ pc' = "setup_timezone"
            /\ UNCHANGED exit
    /\ UNCHANGED <<args, timezone_str, start_date, end_date, current_date, dtstamp,
                   events_data, ics_events, stdout, sunLog, fileOpens, fileLines,
                   failures, remembered>>

-----------------------------------------------------------------------------
(* generate_daylight_calendar, lines 103-223 *)

\* lines 104-121: the lookup answers, pytz knows the name
SetupTimezone ==
    /\ pc = "setup_timezone"
    /\ \E found \in TimezoneAtResults :
         timezone_str' = IF found = "" THEN "UTC" ELSE found
    /\ pc' = "parse_dates"
    /\ UNCHANGED <<args, lat, lng, filename, start_date, end_date, current_date,
                   dtstamp, events_data, ics_events, stdout, sunLog, fileOpens,
                   fileLines, exit, failures, remembered>>

\* lines 104-112: TimezoneFinder.timezone_at raises (coordinates out of
\* bounds, data files missing) or pytz.timezone does not know the name;
\* no try statement encloses these calls, here or in __main__
SetupTimezoneRaises ==
    /\ pc = "setup_timezone"
    /\ \E call \in TimezoneCalls : exit' = Traceback(call)
    /\ failures' = failures \cup {"timezone"}
    /\ pc' = "exited"
    /\ UNCHANGED <<args, lat, lng, filename, timezone_str, start_date, end_date,
                   current_date, dtstamp, events_data, ics_events, stdout, sunLog,
                   fileOpens, fileLines, remembered>>

\* lines 124-131
ParseDates ==
    /\ pc = "parse_dates"
    /\ IF StrptimeFails(args.start) \/ StrptimeFails(args.end)
       THEN /\ pc' = "exited"
            /\ exit' = Traceback("ValueError")
            /\ UNCHANGED <<start_date, end_date, current_date, dtstamp>>
       ELSE /\ start_date' = Strptime(args.start)
            /\ end_date' = Strptime(args.end)
            /\ \E now \in Clocks : dtstamp' = format_datetime_ics(now)
            /\ current_date' = Strptime(args.start)
            /\ pc' = "loop"
            /\ UNCHANGED exit
    /\ events_data' = << >>
    /\ UNCHANGED <<args, lat, lng, filename, timezone_str, ics_events, stdout,
                   sunLog, fileOpens, fileLines, failures, remembered>>

\* the loop test with the end date left out of the range
LoopTestExclusive == DateLT(current_date, end_date)

\* line 133: while current_date <= end_date
LoopTest == DateLE(current_date, end_date)

\* line 178: current_date += datetime.timedelta(days=1); past date.max this
\* raises OverflowError, outside the try statement
NextDay ==
    IF current_date = DateMax
    THEN /\ pc' = "exited"
         /\ exit' = Traceback("OverflowError")
         /\ UNCHANGED current_date
    ELSE /\ current_date' = AddDay(current_date)
         /\ pc' = "loop"
         /\ UNCHANGED exit

\* lines 133-172 and 178: sun() returns
DaySucceeds ==
    /\ pc = "loop"
    /\ LoopTest
    /\ \E t \in SunTimes :
         LET s == SunResult(current_date, t) IN
           /\ events_data' =
                events_data \o DayEvents(current_date, s, args.separate_events)
           /\ sunLog' = Append(sunLog, [date |-> current_date, ok |-> TRUE,
                                        sunrise |-> s.sunrise, sunset |-> s.sunset])
    /\ NextDay
    /\ UNCHANGED <<args, lat, lng, filename, timezone_str, start_date, end_date,
                   dtstamp, ics_events, stdout, fileOpens, fileLines, failures,
                   remembered>>

\* lines 133-136, 174-178: sun() raises, the day is skipped
DayFails ==
    /\ pc = "loop"
    /\ LoopTest
    /\ stdout' = Append(stdout, [skipping |-> current_date])
    /\ sunLog' = Append(sunLog, [date |-> current_date, ok |-> FALSE,
                                 sunrise |-> DateTime(current_date, 0),
                                 sunset |-> DateTime(current_date, 0)])
    /\ failures' = failures \cup {"solar"}
    /\ NextDay
    /\ UNCHANGED <<args, lat, lng, filename, timezone_str, start_date, end_date,
                   dtstamp, events_data, ics_events, fileOpens, fileLines,
                   remembered>>

\* line 133 false: the loop is left
LoopEnds ==
    /\ pc = "loop"
    /\ ~LoopTest
    /\ pc' = "write"
    /\ UNCHANGED <<args, lat, lng, filename, timezone_str, start_date, end_date,
                   current_date, dtstamp, events_data, ics_events, stdout, sunLog,
                   fileOpens, fileLines, exit, failures, remembered>>

\* lines 183-193
IcsEvents == [i \in 1..Len(events_data) |-> IcsEvent(events_data[i])]

\* lines 200-221: the header row, then one row per event
CsvRows == << CsvHeaders >> \o [i \in 1..Len(events_data) |-> CsvRow(events_data[i])]

\* lines 181-197, 223, and the return to the end of the script
WriteIcs ==
    /\ pc = "write"
    /\ args.format = "ics"
    /\ ics_events' = IcsEvents
    /\ fileOpens' = fileOpens + 1
    /\ fileLines' = generate_ics_content(IcsEvents)
    /\ pc' = "exited"
    /\ exit' = ExitOk
    /\ UNCHANGED <<args, lat, lng, filename, timezone_str, start_date, end_date,
                   current_date, dtstamp, events_data, stdout, sunLog, failures,
                   remembered>>

\* lines 199-223, and the return to the end of the script
WriteCsv ==
    /\ pc = "write"
    /\ args.format # "ics"
    /\ fileOpens' = fileOpens + 1
    /\ fileLines' = CsvRows
    /\ pc' = "exited"
    /\ exit' = ExitOk
    /\ UNCHANGED <<args, lat, lng, filename, timezone_str, start_date, end_date,
                   current_date, dtstamp, events_data, ics_events, stdout, sunLog,
                   failures, remembered>>

-----------------------------------------------------------------------------
(* The next run of the script *)

\* what a run leaves behind for the runs after it: the UID of its i-th event,
\* with the arguments of generate_uid and the run's DTSTAMP
Emitted(i) ==
    [date |-> events_data[i].date, type |-> events_data[i].type,
     lat |-> lat, lng |-> lng, uid |-> ics_events[i].uid, dtstamp |-> dtstamp]

\* the process is gone: every variable of the run is back to its first value
Forgotten ==
    /\ pc' = "start"
    /\ args' = NoArgs
    /\ lat' = 0 /\ lng' = 0
    /\ filename' = ""
    /\ timezone_str' = ""
    /\ start_date' = NoDate /\ end_date' = NoDate /\ current_date' = NoDate
    /\ dtstamp' = format_datetime_ics(DateTime(NoDate, 0))
    /\ events_data' = << >>
    /\ ics_events' = << >>
    /\ stdout' = << >>
    /\ sunLog' = << >>
    /\ fileOpens' = 0
    /\ fileLines' = << >>
    /\ exit' = Running
    /\ failures' = {}

\* the script is started again
NextRun ==
    /\ pc = "exited"
    /\ Forgotten
    /\ UNCHANGED remembered

\* the script is started again, and one UID of the calendar it wrote is kept
\* to be compared with the UIDs of the runs that follow
NextRunKeepingUid ==
    /\ pc = "exited"
    /\ \E i \in 1..Len(ics_events) : remembered' = << Emitted(i) >>
    /\ Forgotten

\* the steps of one run
Run ==
    \/ ParseArgs
    \/ ValidateDates
    \/ GeocodeFound
    \/ GeocodeFails
    \/ UseCoordinates
    \/ SetupTimezone
    \/ SetupTimezoneRaises
    \/ ParseDates
    \/ DaySucceeds
    \/ DayFails
    \/ LoopEnds
    \/ WriteIcs
    \/ WriteCsv

Next == Run \/ NextRun

Spec == Init /\ [][Next]_vars

NextRerun == Run \/ NextRun \/ NextRunKeepingUid

\* runs of the script one after another, a UID of an earlier run in hand
SpecRerun == Init /\ [][NextRerun]_vars

-----------------------------------------------------------------------------
(* Measures used by the properties; none of them is used by the actions *)

\* days of the months before month m of year y
DaysBeforeMonth(y, m) ==
    LET cum == <<0, 31, 59, 90, 120, 151, 181, 212, 243, 273, 304, 334>>
    IN cum[m] + (IF m > 2 /\ IsLeap(y) THEN 1 ELSE 0)

\* date.toordinal(): 0001-01-01 is day 1
ToOrdinal(dt) ==
    LET y == dt.y - 1
    IN 365 * y + (y \div 4) - (y \div 100) + (y \div 400)
       + DaysBeforeMonth(dt.y, dt.m) + dt.d

\* seconds from instant a to instant b
SecondsBetween(a, b) ==
    (ToOrdinal(b.date) - ToOrdinal(a.date)) * 86400 + (b.sec - a.sec)

\* the instant a DTSTART/DTEND value YYYYMMDDTHHMMSS names
ParseIcs(v) ==
    DateTime(Date(v.ymd \div 10000, (v.ymd \div 100) % 100, v.ymd % 100),
             (v.hms \div 10000) * 3600 + ((v.hms \div 100) % 100) * 60 + (v.hms % 100))

\* number of days of the range start_date..end_date
RangeDays ==
    IF DateLT(end_date, start_date) THEN 0
    ELSE ToOrdinal(end_date) - ToOrdinal(start_date) + 1

\* events appended per successful day
PerDay == IF args.separate_events THEN 2 ELSE 1

\* the loop of lines 133-178 has been entered in this run
InGenerate == start_date # NoDate

\* every day of the range has been through the loop body
AllDaysDone ==
    /\ InGenerate
    /\ \/ pc = "write"
       \/ pc = "exited" /\ exit.how = "ok"
       \/ pc = "exited" /\ exit.raised = "OverflowError"

\* the run has written its file and ended
Written == pc = "exited" /\ exit.how = "ok"

\* indices of the sun() calls that raised / returned
FailedCalls == { j \in 1..Len(sunLog) : ~sunLog[j].ok }
GoodCalls == { j \in 1..Len(sunLog) : sunLog[j].ok }

\* the lines of the file with a given name, in file order
LinesNamed(name) == SelectSeq(fileLines, LAMBDA l : l.name = name)

IsLine(l, name, value) == l.name = name /\ l.value = value

\* number of lines among the first i that are name:value
RECURSIVE CountUpTo(_, _, _)
CountUpTo(i, name, value) ==
    IF i = 0 THEN 0
    ELSE CountUpTo(i - 1, name, value)
         + (IF IsLine(fileLines[i], name, value) THEN 1 ELSE 0)

-----------------------------------------------------------------------------
(* Properties *)

\* C1: whatever the range and whichever days sun() fails on, a run that has
\* entered generate_daylight_calendar's loop gets to the write step and ends
\* normally; the events are those of the days that did not fail, all of each
\* such day and none of a failing day; each failing day is printed as skipped
\* exactly once.
C1_CompletesWithSkips ==
    /\ (InGenerate /\ pc = "exited") => exit.how = "ok"
    /\ AllDaysDone => Len(sunLog) = RangeDays
    /\ \A j \in 1..Len(sunLog) :
         LET d == sunLog[j].date
             evs == { i \in 1..Len(events_data) : events_data[i].date = d }
             skips == { i \in 1..Len(stdout) : stdout[i].skipping = d }
         IN IF sunLog[j].ok
            THEN Cardinality(evs) = PerDay /\ skips = {}
            ELSE evs = {} /\ Cardinality(skips) = 1
    /\ Len(stdout) = Cardinality(FailedCalls)
    /\ Len(events_data) = PerDay * Cardinality(GoodCalls)

\* What remains of C1 when the run is not asked to end normally.
C1_SkipsOnly ==
    /\ AllDaysDone => Len(sunLog) = RangeDays
    /\ \A j \in 1..Len(sunLog) :
         LET d == sunLog[j].date
             evs == { i \in 1..Len(events_data) : events_data[i].date = d }
             skips == { i \in 1..Len(stdout) : stdout[i].skipping = d }
         IN IF sunLog[j].ok
            THEN Cardinality(evs) = PerDay /\ skips = {}
            ELSE evs = {} /\ Cardinality(skips) = 1
    /\ Len(stdout) = Cardinality(FailedCalls)
    /\ Len(events_data) = PerDay * Cardinality(GoodCalls)

\* C2: with start <= end, N days in the range and no failure of sun(), the
\* event sequence has N events in combined mode and 2N in split mode once all
\* days are done (one day when start = end), and grows by that many per day.
C2_EventCount ==
    /\ (AllDaysDone /\ FailedCalls = {} /\ DateLE(start_date, end_date))
         => Len(events_data) = PerDay * RangeDays
    /\ (pc = "loop" /\ FailedCalls = {})
         => Len(events_data)
              = PerDay * (ToOrdinal(current_date) - ToOrdinal(start_date))

C2_Witness ==
    /\ AllDaysDone
    /\ FailedCalls = {}
    /\ RangeDays = 2
    /\ args.separate_events
    /\ Len(events_data) = 4

\* C3: at every point of the loop and in the output, under any pattern of
\* failing days, the events are in non-decreasing order of date, in split mode
\* a date's Sunrise event is immediately followed by its Sunset event, and the
\* VEVENT blocks and CSV rows come in the order of the events.
C3_Ordered ==
    /\ \A i \in 1..(Len(events_data) - 1) :
         DateLE(events_data[i].date, events_data[i + 1].date)
    /\ \A i \in 1..Len(events_data) :
         /\ events_data[i].type = "sunrise"
              => /\ i < Len(events_data)
                 /\ events_data[i + 1].type = "sunset"
                 /\ events_data[i + 1].date = events_data[i].date
         /\ events_data[i].type = "sunset"
              => /\ i > 1
                 /\ events_data[i - 1].type = "sunrise"
                 /\ events_data[i - 1].date = events_data[i].date
         /\ args.separate_events <=> events_data[i].type # "daylight"
    /\ (Written /\ args.format = "ics")
         => /\ Len(LinesNamed("UID")) = Len(events_data)
            /\ Len(LinesNamed("SUMMARY")) = Len(events_data)
            /\ Len(LinesNamed("DTEND")) = Len(events_data)
            /\ \A i \in 1..Len(events_data) :
                 /\ LinesNamed("UID")[i].value.type = events_data[i].type
                 /\ LinesNamed("UID")[i].value.ymd
                      = events_data[i].date.y * 10000
                        + events_data[i].date.m * 100 + events_data[i].date.d
                 /\ LinesNamed("SUMMARY")[i].value = events_data[i].summary
                 /\ ParseIcs(LinesNamed("DTEND")[i].value) = events_data[i].end
    /\ (Written /\ args.format = "csv")
         => /\ Len(fileLines) = Len(events_data) + 1
            /\ \A i \in 1..Len(events_data) :
                 /\ fileLines[i + 1][1] = events_data[i].summary
                 /\ fileLines[i + 1][4]
                      = << events_data[i].end.date.y, events_data[i].end.date.m,
                           events_data[i].end.date.d >>

C3_Witness ==
    /\ Written
    /\ args.format = "ics"
    /\ args.separate_events
    /\ FailedCalls # {}
    /\ Len(events_data) = 4
    /\ events_data[2].date # events_data[3].date

\* C4: in split mode the Sunrise event of a computed day ends at the sunrise
\* sun() returned and starts 30 minutes before it, the Sunset event likewise
\* at the sunset, so that each DTEND is 30 minutes after its DTSTART; in
\* combined mode the Daylight event runs from the sunrise to the sunset as
\* returned, also when the sunset is not after the sunrise.
C4_Spans ==
    /\ \A i \in 1..Len(events_data) :
         LET e == events_data[i] IN
         \E j \in GoodCalls :
            /\ sunLog[j].date = e.date
            /\ e.type = "sunrise"
                 => e.end = sunLog[j].sunrise
                    /\ SecondsBetween(e.start, e.end) = 30 * 60
            /\ e.type = "sunset"
                 => e.end = sunLog[j].sunset
                    /\ SecondsBetween(e.start, e.end) = 30 * 60
            /\ e.type = "daylight"
                 => e.start = sunLog[j].sunrise /\ e.end = sunLog[j].sunset
    /\ (Written /\ args.format = "ics" /\ args.separate_events)
         => /\ Len(LinesNamed("DTSTART")) = Len(events_data)
            /\ Len(LinesNamed("DTEND")) = Len(events_data)
            /\ \A i \in 1..Len(events_data) :
                 SecondsBetween(ParseIcs(LinesNamed("DTSTART")[i].value),
                                ParseIcs(LinesNamed("DTEND")[i].value)) = 30 * 60

C4_Witness ==
    /\ Written
    /\ args.format = "ics"
    /\ args.separate_events
    /\ \E i \in 1..Len(events_data) :
         /\ events_data[i].type = "sunrise"
         /\ events_data[i].start.date # events_data[i].end.date
         /\ events_data[i].start.date.m # events_data[i].end.date.m

\* the i-th event of this run has the date, kind and location of the
\* remembered UID
SameInputs(i) ==
    /\ events_data[i].date = remembered[1].date
    /\ events_data[i].type = remembered[1].type
    /\ lat = remembered[1].lat
    /\ lng = remembered[1].lng

\* C5: the UID depends on date, kind, latitude and longitude only: an event of
\* this run with the date, kind and location of an event of an earlier run has
\* that event's UID, whatever the two runs' clocks, ranges, timezones and
\* event times.
C5_StableUid ==
    remembered # << >>
      => \A i \in 1..Len(ics_events) :
            SameInputs(i) => ics_events[i].uid = remembered[1].uid

C5_Witness ==
    /\ remembered # << >>
    /\ Written
    /\ \E i \in 1..Len(ics_events) :
         /\ SameInputs(i)
         /\ ics_events[i].dtstamp # remembered[1].dtstamp
         /\ start_date # remembered[1].date
         /\ ics_events[i].uid = remembered[1].uid

\* the command line holds one of the configuration errors: a start or end
\* date that does not parse, a latitude without a longitude; or the place
\* name did not resolve
ConfigError ==
    \/ args.start.sep # "-" \/ args.end.sep # "-"
    \/ args.start.m > 12 \/ args.end.m > 12
    \/ args.start.d > DaysInMonth(args.start.y, args.start.m)
    \/ args.end.d > DaysInMonth(args.end.y, args.end.m)
    \/ args.end.y > 9999
    \/ args.lat # << >> /\ args.lon = << >>
    \/ "geocode" \in failures

\* C6: a configuration error is found in __main__, before the loop over the
\* days begins: the run never gets to generate_daylight_calendar, never calls
\* sun(), never opens the output file, and ends with a usage error and a
\* non-zero exit status.
C6_ConfigErrorsFirst ==
    ConfigError
      => /\ pc \in {"validate_dates", "resolve_location", "exited"}
         /\ sunLog = << >>
         /\ fileOpens = 0
         /\ fileLines = << >>
         /\ pc = "exited" => exit.how = "usage" /\ exit.code # 0

C6_Witness ==
    /\ pc = "exited"
    /\ args.start = DateStr(2026, 2, 27, "-")
    /\ args.end.m = 13
    /\ exit.code = 2
    /\ fileOpens = 0

\* C7: a run that gets into generate_daylight_calendar and ends without any
\* event (every day failed, or start > end) has ended normally with exit
\* status 0 and has written one file that holds the CSV header row alone, or
\* the ICS preamble and END:VCALENDAR alone.
C7_EmptyRunSucceeds ==
    (InGenerate /\ pc = "exited" /\ events_data = << >>)
      => /\ exit.how = "ok" /\ exit.code = 0
         /\ fileOpens = 1
         /\ args.format = "csv" => fileLines = << CsvHeaders >>
         /\ args.format = "ics"
              => /\ Len(fileLines) = 6
                 /\ \A i \in 1..5 : fileLines[i] = IcsPreamble[i]
                 /\ IsLine(fileLines[6], "END", "VCALENDAR")

\* C8: a failure of a collaborator (geocoding, timezone lookup or
\* construction, the solar computation of a day) is caught where the
\* collaborator is called: a failed geocoding or timezone step ends the run as
\* a configuration error without a file, a failed day is skipped, and no
\* exception of a collaborator ends the run with a traceback.
C8_CollaboratorsCaught ==
    /\ (pc = "exited" /\ ("geocode" \in failures \/ "timezone" \in failures))
         => exit.how = "usage" /\ exit.code # 0 /\ fileOpens = 0
    /\ Len(stdout) = Cardinality(FailedCalls)
    /\ exit.raised \notin TimezoneCalls

\* C9: the ICS document of k events starts with the preamble, whose first
\* line is BEGIN:VCALENDAR; holds k BEGIN:VEVENT and k END:VEVENT lines, never
\* a second BEGIN:VEVENT before the END:VEVENT of the first; holds the events
\* in their order (Sunrise, Sunset, Sunrise, Sunset for two days of split
\* mode); and has END:VCALENDAR as its last line and nowhere else.
C9_IcsDocument ==
    (Written /\ args.format = "ics")
      => LET n == Len(fileLines)
             k == Len(ics_events)
         IN /\ n >= 6
            /\ \A i \in 1..5 :
                 /\ fileLines[i].name = IcsPreamble[i].name
                 /\ fileLines[i].value = IcsPreamble[i].value
            /\ IsLine(fileLines[1], "BEGIN", "VCALENDAR")
            /\ CountUpTo(n, "BEGIN", "VEVENT") = k
            /\ CountUpTo(n, "END", "VEVENT") = k
            /\ \A i \in 1..n :
                 LET open == CountUpTo(i, "BEGIN", "VEVENT")
                             - CountUpTo(i, "END", "VEVENT")
                 IN /\ open \in {0, 1}
                    /\ IsLine(fileLines[i], "BEGIN", "VEVENT") => open = 1
                    /\ IsLine(fileLines[i], "END", "VEVENT") => open = 0
                    /\ fileLines[i].name \in {"UID", "SUMMARY", "DTSTART", "DTEND"}
                         => open = 1
            /\ Len(LinesNamed("UID")) = k
            /\ Len(LinesNamed("SUMMARY")) = k
            /\ \A j \in 1..k :
                 /\ LinesNamed("UID")[j].value = ics_events[j].uid
                 /\ LinesNamed("SUMMARY")[j].value = ics_events[j].summary
            /\ (args.separate_events /\ FailedCalls = {} /\ RangeDays = 2)
                 => [j \in 1..k |-> ics_events[j].summary]
                      = << "Sunrise", "Sunset", "Sunrise", "Sunset" >>
            /\ IsLine(fileLines[n], "END", "VCALENDAR")
            /\ CountUpTo(n, "END", "VCALENDAR") = 1

C9_Witness ==
    /\ Written
    /\ args.format = "ics"
    /\ args.separate_events
    /\ FailedCalls = {}
    /\ RangeDays = 2
    /\ Len(fileLines) = 50
    /\ CountUpTo(50, "BEGIN", "VEVENT") = 4

\* C10: within a run no (date, kind) pair occurs twice in the event sequence,
\* every UID carries its event's date as YYYYMMDD and its kind, and so the
\* UIDs of the run are pairwise distinct, also where two digests are equal.
C10_DistinctUids ==
    /\ \A i, j \in 1..Len(events_data) :
         i < j => \/ events_data[i].date # events_data[j].date
                  \/ events_data[i].type # events_data[j].type
    /\ \A i \in 1..Len(ics_events) :
         /\ ics_events[i].uid.type = events_data[i].type
         /\ ics_events[i].uid.ymd
              = events_data[i].date.y * 10000
                + events_data[i].date.m * 100 + events_data[i].date.d
    /\ \A i, j \in 1..Len(ics_events) :
         i < j => ics_events[i].uid # ics_events[j].uid

C10_Witness ==
    /\ Written
    /\ \E i, j \in 1..Len(ics_events) :
         /\ i < j
         /\ ics_events[i].uid.hash = ics_events[j].uid.hash
         /\ ics_events[i].uid.type = ics_events[j].uid.type
         /\ ics_events[i].uid # ics_events[j].uid

=============================================================================
